---------------------------- MODULE Spec2Model ----------------------------
(***************************************************************************)
(* A model of the BakingApp recipe service and its text transforms:        *)
(*   expandUnits, getWikimediaImage, fetchRecipeDetails and                *)
(*   getRandomDessertRecipe (the recipe API service),                      *)
(*   getInstructionSteps (RecipeDisplay), and the App component that       *)
(*   starts the fetches and chooses the view.                              *)
(* Strings are TLA+ strings; a character is a string of length 1.          *)
(***************************************************************************)
EXTENDS Integers, Sequences, FiniteSets, TLC

VARIABLES
  measure,        \* expandUnits: the argument
  expanded,       \* expandUnits: the value returned (NoValue before the call)
  instructions,   \* getInstructionSteps: the argument
  steps,          \* getInstructionSteps: the value returned (NoValue before)
  pc,             \* the recipe service: position of the running call
  op,             \* the exported function called: "random" or "details"
  mealId,         \* fetchRecipeDetails: its argument
  desserts,       \* getRandomDessertRecipe: the listing fetched
  data,           \* fetchRecipeDetails: the lookup response body
  meal,           \* fetchRecipeDetails: data.meals[0]
  ingredients,    \* fetchRecipeDetails: the ingredient list built
  recipe,         \* the Recipe returned
  error,          \* the error raised out of the exported call
  recipeReqs,     \* requests issued to the recipe API, in order
  searchTerm,     \* getWikimediaImage: the normalised recipe name
  variant,        \* getWikimediaImage: index of the current search variation
  results,        \* getWikimediaImage: data.query.search of the current variation
  cand,           \* getWikimediaImage: index of the current candidate
  searches,       \* search queries issued to the image service, in order
  nMeta,          \* number of metadata (imageinfo) requests issued
  accepted,       \* the URL accepted from a candidate's metadata
  image,          \* the value getWikimediaImage returned
  mounted,        \* App: the mount effect has run
  location,       \* App: the 'recipe' query parameter of the page URL
  loading,        \* App: the loading state
  appRecipe,      \* App: the recipe state
  appError,       \* App: the error state
  pending,        \* App: the service calls awaited, in the order started
  events,         \* App: fetches started and settled, in order
  clicks          \* App: number of button clicks so far

unitVars  == <<measure, expanded>>
stepVars  == <<instructions, steps>>
fetchVars == <<pc, op, mealId, desserts, data, meal, ingredients, recipe,
               error, recipeReqs>>
imageVars == <<searchTerm, variant, results, cand, searches, nMeta,
               accepted, image>>
appVars   == <<mounted, location, loading, appRecipe, appError, pending,
               events, clicks>>
vars == <<unitVars, stepVars, fetchVars, imageVars, appVars>>

\* Values that may be null or undefined in the source are tagged: Null, a
\* string Str(s), an array Arr(seq), an object Obj(record).  NoValue is a
\* variable not assigned yet.
Null == [t |-> "null"]

NoValue == [t |-> "none"]

Str(s) == [t |-> "str", v |-> s]

Arr(seq) == [t |-> "arr", v |-> seq]

Obj(rec) == [t |-> "obj", v |-> rec]

\* JavaScript truthiness of a tagged value
Truthy(x) == x # Null /\ x # NoValue /\ x # Str("")

---------------------------------------------------------------------------
(* Characters and the regular-expression character classes                 *)

Char(s, i) == IF i >= 1 /\ i <= Len(s) THEN SubSeq(s, i, i) ELSE ""

Sub(s, i, j) == IF i > j THEN "" ELSE SubSeq(s, i, j)

Digits == {"0", "1", "2", "3", "4", "5", "6", "7", "8", "9"}

UpperLetters ==
  { "A", "B", "C", "D", "E", "F", "G", "H", "I", "J", "K", "L", "M", "N",
    "O", "P", "Q", "R", "S", "T", "U", "V", "W", "X", "Y", "Z" }

LowerLetters ==
  { "a", "b", "c", "d", "e", "f", "g", "h", "i", "j", "k", "l", "m", "n",
    "o", "p", "q", "r", "s", "t", "u", "v", "w", "x", "y", "z" }

\* String.prototype.toLowerCase on one upper-case letter
LowerOf ==
  [ A |-> "a", B |-> "b", C |-> "c", D |-> "d", E |-> "e", F |-> "f",
    G |-> "g", H |-> "h", I |-> "i", J |-> "j", K |-> "k", L |-> "l",
    M |-> "m", N |-> "n", O |-> "o", P |-> "p", Q |-> "q", R |-> "r",
    S |-> "s", T |-> "t", U |-> "u", V |-> "v", W |-> "w", X |-> "x",
    Y |-> "y", Z |-> "z" ]

IsUpper(c) == c \in UpperLetters

IsLower(c) == c \in LowerLetters

\* \d
IsDigit(c) == c \in Digits

\* \w
IsWord(c) == IsUpper(c) \/ IsLower(c) \/ IsDigit(c) \/ c = "_"

\* \s
IsSpace(c) == c \in {" ", "\n", "\t", "\r"}

ToLowerChar(c) == IF IsUpper(c) THEN LowerOf[c] ELSE c

\* String.prototype.toLowerCase, by halves
RECURSIVE toLowerCase(_)
toLowerCase(s) ==
  IF Len(s) = 0 THEN ""
  ELSE IF Len(s) = 1 THEN ToLowerChar(s)
  ELSE LET h == Len(s) \div 2
       IN toLowerCase(Sub(s, 1, h)) \o toLowerCase(Sub(s, h + 1, Len(s)))

\* \b before the character at index i (between i-1 and i)
WordBoundary(s, i) == IsWord(Char(s, i - 1)) # IsWord(Char(s, i))

\* index one past the run of characters of class d(igit) / s(pace) from i
RECURSIVE DigitRunEnd(_, _)
DigitRunEnd(s, i) ==
  IF IsDigit(Char(s, i)) THEN DigitRunEnd(s, i + 1) ELSE i

RECURSIVE SpaceRunEnd(_, _)
SpaceRunEnd(s, i) ==
  IF IsSpace(Char(s, i)) THEN SpaceRunEnd(s, i + 1) ELSE i

\* String.prototype.trim
RECURSIVE TrimLeft(_)
TrimLeft(s) ==
  IF Len(s) > 0 /\ IsSpace(Char(s, 1)) THEN TrimLeft(Sub(s, 2, Len(s))) ELSE s

RECURSIVE TrimRight(_)
TrimRight(s) ==
  IF Len(s) > 0 /\ IsSpace(Char(s, Len(s)))
    THEN TrimRight(Sub(s, 1, Len(s) - 1)) ELSE s

trim(s) == TrimRight(TrimLeft(s))

endsWith(s, t) ==
  Len(t) <= Len(s) /\ Sub(s, Len(s) - Len(t) + 1, Len(s)) = t

includes(s, t) ==
  \E i \in 1..(Len(s) - Len(t) + 1) : Sub(s, i, i + Len(t) - 1) = t

DigitValue(c) ==
  CASE c = "0" -> 0 [] c = "1" -> 1 [] c = "2" -> 2 [] c = "3" -> 3
    [] c = "4" -> 4 [] c = "5" -> 5 [] c = "6" -> 6 [] c = "7" -> 7
    [] c = "8" -> 8 [] c = "9" -> 9

\* parseInt of a string of decimal digits
RECURSIVE parseInt(_)
parseInt(s) ==
  IF Len(s) = 0 THEN 0
  ELSE 10 * parseInt(Sub(s, 1, Len(s) - 1)) + DigitValue(Char(s, Len(s)))

---------------------------------------------------------------------------
(* expandUnits: a chain of String.prototype.replace calls with global      *)
(* regular expressions, then trim.  A rule describes one replace call.     *)

\* One-character stand-ins for the vulgar-fraction glyphs U+00BD, U+2153,
\* U+2154, U+00BC, U+00BE, U+215B: like them, neither \w nor \d nor \s.
GlyphHalf == "~"

GlyphThird == "^"

GlyphTwoThirds == "%"

GlyphQuarter == "|"

GlyphThreeQuarters == "@"

GlyphEighth == "#"

Lit(pat, rep) == [kind |-> "lit", pat |-> pat, rep |-> rep]

\* /\b<pat>\b\.?/ (dot) or /\b<pat>\b(?!\w)/ (no dot); ci is the i flag
Abbrev(pat, ci, dot, rep) ==
  [kind |-> "word", pat |-> pat, ci |-> ci, dot |-> dot, rep |-> rep]

\* /(\d+)\s*<pat>(?!s)/gi with the pluralising callback
Plural(pat) == [kind |-> "plural", pat |-> pat]

\* The replace calls of expandUnits in source order
UnitRules ==
  << Lit("1/2", GlyphHalf),
     Lit("1/3", GlyphThird),
     Lit("2/3", GlyphTwoThirds),
     Lit("1/4", GlyphQuarter),
     Lit("3/4", GlyphThreeQuarters),
     Lit("1/8", GlyphEighth),
     Abbrev("tsp", TRUE, TRUE, "teaspoon"),
     Abbrev("tbsp", TRUE, TRUE, "tablespoon"),
     Abbrev("tbl", TRUE, TRUE, "tablespoon"),
     Abbrev("T", FALSE, TRUE, "tablespoon"),
     Abbrev("t", FALSE, TRUE, "teaspoon"),
     Abbrev("oz", TRUE, TRUE, "ounce"),
     Abbrev("lb", TRUE, TRUE, "pound"),
     Abbrev("lbs", TRUE, TRUE, "pounds"),
     Abbrev("pt", TRUE, TRUE, "pint"),
     Abbrev("qt", TRUE, TRUE, "quart"),
     Abbrev("gal", TRUE, TRUE, "gallon"),
     [kind |-> "floz", rep |-> "fluid ounce"],
     Abbrev("g", TRUE, FALSE, "gram"),
     Abbrev("kg", TRUE, FALSE, "kilogram"),
     Abbrev("ml", TRUE, FALSE, "milliliter"),
     Abbrev("l", TRUE, FALSE, "liter"),
     Plural("teaspoon"),
     Plural("tablespoon"),
     Plural("ounce") >>

\* the text at i..i+Len(pat)-1 is pat (pat in lower case when ci)
TextAt(s, i, pat, ci) ==
  /\ i + Len(pat) - 1 <= Len(s)
  /\ LET t == Sub(s, i, i + Len(pat) - 1)
     IN IF ci THEN toLowerCase(t) = pat ELSE t = pat

\* length of the match of /\bfl\.?\s*oz\b\.?/i starting at i, 0 if none
MatchFlOz(s, i) ==
  LET a == i + 2
      b == IF Char(s, a) = "." THEN a + 1 ELSE a
      c == SpaceRunEnd(s, b)
      e == c + 2
  IN IF /\ WordBoundary(s, i)
        /\ TextAt(s, i, "fl", TRUE)
        /\ TextAt(s, c, "oz", TRUE)
        /\ WordBoundary(s, e)
       THEN (IF Char(s, e) = "." THEN e + 1 ELSE e) - i
       ELSE 0

\* length of the match of /(\d+)\s*<pat>(?!s)/i starting at i, 0 if none
MatchPlural(s, i, pat) ==
  LET e == DigitRunEnd(s, i)
      f == SpaceRunEnd(s, e)
      g == f + Len(pat)
  IN IF e > i /\ TextAt(s, f, pat, TRUE) /\ toLowerCase(Char(s, g)) # "s"
       THEN g - i
       ELSE 0

\* length of the match of the expression of rule r starting at index i, 0 if none
MatchLen(s, i, r) ==
  CASE r.kind = "lit" ->
         IF TextAt(s, i, r.pat, FALSE) THEN Len(r.pat) ELSE 0
    [] r.kind = "word" ->
         LET e == i + Len(r.pat)
         IN IF /\ WordBoundary(s, i)
               /\ TextAt(s, i, r.pat, r.ci)
               /\ WordBoundary(s, e)
              THEN (IF r.dot /\ Char(s, e) = "." THEN e + 1 ELSE e) - i
              ELSE 0
    [] r.kind = "floz" -> MatchFlOz(s, i)
    [] r.kind = "plural" -> MatchPlural(s, i, r.pat)

\* what replaces the match of length n at i
Replacement(s, i, n, r) ==
  IF r.kind = "plural"
    THEN LET match == Sub(s, i, i + n - 1)
             num == Sub(s, i, DigitRunEnd(s, i) - 1)
         IN IF parseInt(num) = 1 THEN match ELSE match \o "s"
    ELSE r.rep

\* s.replace(/.../g, ...) from index i on
RECURSIVE ReplaceFrom(_, _, _)
ReplaceFrom(s, i, r) ==
  IF i > Len(s) THEN ""
  ELSE LET n == MatchLen(s, i, r)
       IN IF n > 0
            THEN Replacement(s, i, n, r) \o ReplaceFrom(s, i + n, r)
            ELSE Char(s, i) \o ReplaceFrom(s, i + 1, r)

RECURSIVE ApplyRules(_, _)
ApplyRules(s, k) ==
  IF k > Len(UnitRules) THEN s
  ELSE ApplyRules(ReplaceFrom(s, 1, UnitRules[k]), k + 1)

expandUnits(m) == IF m = "" THEN m ELSE trim(ApplyRules(m, 1))

---------------------------------------------------------------------------
(* The measures expandUnits is applied to                                  *)

MaxIntDigits == 2

MaxFracDigits == 1

RECURSIVE DigitStrings(_, _)
DigitStrings(ds, n) ==
  IF n = 0 THEN {""}
  ELSE {d \o t : d \in ds, t \in DigitStrings(ds, n - 1)}

\* whole numbers without a leading zero
WholeNumbers ==
  UNION {{d \o t : d \in {"1", "2"}, t \in DigitStrings({"0", "1", "2"}, n)}
         : n \in 0..(MaxIntDigits - 1)}

Fractions ==
  {""} \cup UNION {{"." \o t : t \in DigitStrings({"0", "1", "2"}, n)}
                   : n \in 1..MaxFracDigits}

Quantities ==
  {w \o f : w \in WholeNumbers, f \in Fractions} \cup {"1/2", "1 3/4", ""}

UnitWords ==
  {"tsp", "tbsp", "tbl", "T", "t", "oz", "lb", "lbs", "pt", "qt", "gal",
   "fl oz", "g", "kg", "ml", "l", "Tsp", "tsp.", "fl. oz.", "floz", "cup",
   "tsps"}

Measures ==
  {IF q = "" THEN u ELSE q \o " " \o u : q \in Quantities, u \in UnitWords}
    \cup {"", " "}

---------------------------------------------------------------------------
(* getInstructionSteps                                                     *)

\* steps with at most this many characters are filtered out
MinStepLength == 20

RECURSIVE NonDigitRunEnd(_, _)
NonDigitRunEnd(s, i) ==
  IF i <= Len(s) /\ ~IsDigit(Char(s, i)) THEN NonDigitRunEnd(s, i + 1) ELSE i

\* the lookahead (?=\d+\.|$) at index t
MarkerOrEndAt(s, t) ==
  \/ t = Len(s) + 1
  \/ LET d == DigitRunEnd(s, t) IN d > t /\ Char(s, d) = "."

\* index one past the match of /\d+\.\s*[^0-9]*?(?=\d+\.|$)/ starting at i,
\* 0 if there is none
NumberedMatchEnd(s, i) ==
  LET e == DigitRunEnd(s, i)
      q == SpaceRunEnd(s, e + 1)
      t == NonDigitRunEnd(s, q)
  IN IF e > i /\ Char(s, e) = "." /\ MarkerOrEndAt(s, t) THEN t ELSE 0

\* instructions.match(/.../g) from index i on: the matches in order
RECURSIVE MatchNumbered(_, _)
MatchNumbered(s, i) ==
  IF i > Len(s) THEN <<>>
  ELSE LET t == NumberedMatchEnd(s, i)
       IN IF t > 0
            THEN <<Sub(s, i, t - 1)>> \o MatchNumbered(s, t)
            ELSE MatchNumbered(s, i + 1)

\* step.replace(/^\d+\.\s*/, '')
StripMarker(step) ==
  LET e == DigitRunEnd(step, 1)
  IN IF e > 1 /\ Char(step, e) = "."
       THEN Sub(step, SpaceRunEnd(step, e + 1), Len(step))
       ELSE step

\* length of the match of /\.\s+(?=[A-Z])|\n\n+/ starting at i, 0 if none
RECURSIVE NewlineRunEnd(_, _)
NewlineRunEnd(s, i) ==
  IF Char(s, i) = "\n" THEN NewlineRunEnd(s, i + 1) ELSE i

SeparatorLen(s, i) ==
  LET q == SpaceRunEnd(s, i + 1)
  IN IF Char(s, i) = "." /\ q > i + 1 /\ IsUpper(Char(s, q)) THEN q - i
     ELSE IF Char(s, i) = "\n" /\ Char(s, i + 1) = "\n"
       THEN NewlineRunEnd(s, i) - i
     ELSE 0

\* String.prototype.split with that separator: p is the start of the current
\* piece, q the index the separator is tried at
RECURSIVE SplitFrom(_, _, _)
SplitFrom(s, p, q) ==
  IF q > Len(s) THEN <<Sub(s, p, Len(s))>>
  ELSE LET n == SeparatorLen(s, q)
       IN IF n > 0
            THEN <<Sub(s, p, q - 1)>> \o SplitFrom(s, q + n, q + n)
            ELSE SplitFrom(s, p, q + 1)

SplitSentences(s) == SplitFrom(s, 1, 1)

MapSeq(seq, F(_)) == [k \in 1..Len(seq) |-> F(seq[k])]

NonEmpty(step) == Len(step) > 0

LongEnoughInclusive(step) == Len(step) >= MinStepLength

\* the filter of the sentence strategy
LongEnough(step) == Len(step) > MinStepLength

WithPeriod(step) == IF endsWith(step, ".") THEN step ELSE step \o "."

NumberedStrategy(numberedSteps) ==
  LET Clean(step) == trim(StripMarker(step))
  IN SelectSeq(MapSeq(numberedSteps, Clean), NonEmpty)

SentenceStrategy(s) ==
  MapSeq(SelectSeq(MapSeq(SplitSentences(s), trim), LongEnough), WithPeriod)

\* match() returns null when nothing matches; null and one match both fall
\* through to the sentence strategy
getInstructionSteps(s) ==
  LET numberedSteps == MatchNumbered(s, 1)
  IN IF Len(numberedSteps) > 1
       THEN NumberedStrategy(numberedSteps)
       ELSE SentenceStrategy(s)

---------------------------------------------------------------------------
(* The instruction texts getInstructionSteps is applied to: up to MaxParts *)
(* parts in a row                                                          *)

MaxParts == 4

InstructionParts ==
  {"1. ", "2. ", "Mix flour. ", "Bake at 350.", "Fold in the egg yolk",
   "fold in the egg white", ". ", "\n\n"}

RECURSIVE Texts(_)
Texts(n) ==
  IF n = 0 THEN {""}
  ELSE LET shorter == Texts(n - 1)
       IN shorter \cup {t \o p : t \in shorter, p \in InstructionParts}

InstructionTexts == Texts(MaxParts)

---------------------------------------------------------------------------
(* getWikimediaImage: the pure parts                                       *)

\* .replace(/[^\w\s]/g, '')
RECURSIVE RemoveSpecial(_)
RemoveSpecial(s) ==
  IF Len(s) = 0 THEN ""
  ELSE LET c == Char(s, 1)
           rest == RemoveSpecial(Sub(s, 2, Len(s)))
       IN IF IsWord(c) \/ IsSpace(c) THEN c \o rest ELSE rest

\* .replace(/\s+/g, ' ')
RECURSIVE NormalizeSpaces(_, _)
NormalizeSpaces(s, i) ==
  IF i > Len(s) THEN ""
  ELSE IF IsSpace(Char(s, i))
    THEN " " \o NormalizeSpaces(s, SpaceRunEnd(s, i))
    ELSE Char(s, i) \o NormalizeSpaces(s, i + 1)

CleanName(recipeName) ==
  trim(NormalizeSpaces(RemoveSpecial(toLowerCase(recipeName)), 1))

\* the variations with the first two exchanged
searchVariationsSwapped(term) ==
  << term \o " cake", term \o " dessert", term \o " food", term >>

searchVariations(term) ==
  << term \o " dessert", term \o " cake", term \o " food", term >>

\* title.replace('File:', ''): the first occurrence only
RECURSIVE StripFilePrefix(_, _)
StripFilePrefix(s, i) ==
  IF i > Len(s) THEN s
  ELSE IF Sub(s, i, i + 4) = "File:"
    THEN Sub(s, 1, i - 1) \o Sub(s, i + 5, Len(s))
    ELSE StripFilePrefix(s, i + 1)

\* fileName.match(/\.(svg|pdf|txt)$/i)
IsNonImageFile(fileName) ==
  \E ext \in {"svg", "pdf", "txt"} :
    endsWith(toLowerCase(fileName), "." \o ext)

\* imageInfo?.thumburl || imageInfo?.url
ImageUrlOf(imageInfo) ==
  IF Truthy(imageInfo.thumburl) THEN imageInfo.thumburl ELSE imageInfo.url

\* imageUrl && !imageUrl.includes('svg')
AcceptableUrl(imageUrl) == Truthy(imageUrl) /\ ~includes(imageUrl.v, "svg")

fallbackImages ==
  << "https://upload.wikimedia.org/wikipedia/commons/thumb/6/6d/Good_Food_Display_-_NCI_Visuals_Online.jpg/800px-Good_Food_Display_-_NCI_Visuals_Online.jpg",
     "https://upload.wikimedia.org/wikipedia/commons/thumb/5/5b/Chocolate_cake.jpg/800px-Chocolate_cake.jpg",
     "https://upload.wikimedia.org/wikipedia/commons/thumb/d/d3/Desserts.jpg/800px-Desserts.jpg",
     "https://upload.wikimedia.org/wikipedia/commons/thumb/f/f1/2ChocolateCake.jpg/800px-2ChocolateCake.jpg" >>

\* no catch block: the error leaves getWikimediaImage
OnImageErrorPropagate == "imageRaised"

\* where an error raised inside the try block goes: the catch block logs it
\* and falls through to the fallback images
OnImageError == "fallback"

---------------------------------------------------------------------------
(* fetchRecipeDetails and getRandomDessertRecipe: the pure parts           *)

\* the ingredient / measure slots of a detail record
NumSlots == 20

NonBlank(x) == Truthy(x) /\ trim(x.v) # ""

\* measure?.trim() || ''
MeasureText(x) == IF x = Null THEN "" ELSE trim(x.v)

\* the loop ending at the first blank slot
RECURSIVE IngredientsStopAtGap(_, _)
IngredientsStopAtGap(m, i) ==
  IF i > NumSlots \/ ~NonBlank(m.strIngredient[i]) THEN <<>>
  ELSE << [name |-> trim(m.strIngredient[i].v),
           measure |-> expandUnits(MeasureText(m.strMeasure[i]))] >>
       \o IngredientsStopAtGap(m, i + 1)

\* the loop over the slots from slot i on
RECURSIVE IngredientsFrom(_, _)
IngredientsFrom(m, i) ==
  IF i > NumSlots THEN <<>>
  ELSE IF NonBlank(m.strIngredient[i])
    THEN << [name |-> trim(m.strIngredient[i].v),
             measure |-> expandUnits(MeasureText(m.strMeasure[i]))] >>
         \o IngredientsFrom(m, i + 1)
    ELSE IngredientsFrom(m, i + 1)

\* meal.strMealThumb && meal.strMealThumb.trim()
HasThumb(m) == NonBlank(m.strMealThumb)

MakeRecipe(m, ingr, img) ==
  [id |-> m.idMeal, name |-> m.strMeal, image |-> img, ingredients |-> ingr]

\* the emptiness test without its length part
NoMealsNullOnly(listing) == listing.meals = Null

\* !desserts.meals || desserts.meals.length === 0
NoMeals(listing) == listing.meals = Null \/ Len(listing.meals.v) = 0

\* Math.floor(Math.random() * n): any index 0..n-1, and 0 when n is 0
RandomIndexes(n) == IF n = 0 THEN {0} ELSE 0..(n - 1)

Error(name, message) == [t |-> "error", name |-> name, message |-> message]

---------------------------------------------------------------------------
(* What the two external services may answer                               *)

MaxMeals == 2

MaxIngredients == 2

MaxResults == 2

SeqsUpTo(S, n) == UNION {[1..k -> S] : k \in 0..n}

\* a fetch rejects, answers with a non-success status, answers with a body
\* that is not JSON, or answers with a JSON body
Rejected == [kind |-> "rejected"]

BadStatus == [kind |-> "status"]

Unparsable == [kind |-> "unparsable"]

Json(body) == [kind |-> "json", body |-> body]

Failures == {Rejected, BadStatus, Unparsable}

MealIds == {"52893", "52768"}

ListingBodies ==
  {Null, Obj([meals |-> Null])}
    \cup {Obj([meals |-> Arr(l)]) :
            l \in SeqsUpTo({[idMeal |-> id] : id \in MealIds}, MaxMeals)}

ListingResponses == Failures \cup {Json(b) : b \in ListingBodies}

RECURSIVE SlotSets(_)
SlotSets(k) ==
  IF k = 0 THEN {{}}
  ELSE LET smaller == SlotSets(k - 1)
       IN smaller \cup {S \cup {i} : S \in smaller, i \in 1..NumSlots}

\* a detail record: the slots in filled hold an ingredient (with spaces around
\* it) and the measure given, the other slots hold blank
MealOf(id, name, thumb, filled, blank, meas) ==
  [ idMeal |-> id, strMeal |-> name, strMealThumb |-> thumb,
    strIngredient |->
      [i \in 1..NumSlots |->
         IF i \in filled THEN Str(" item" \o ToString(i) \o " ") ELSE blank],
    strMeasure |->
      [i \in 1..NumSlots |-> IF i \in filled THEN meas ELSE blank] ]

\* what the empty slots hold, and the measure of the filled ones
SlotStyles ==
  { [blank |-> Null, meas |-> Null],
    [blank |-> Str(""), meas |-> Str(" 2 tsp ")],
    [blank |-> Str("  "), meas |-> Str("")] }

MealsWithThumb(id) ==
  { MealOf(id, Str("Apple Pie"), Str("https://www.themealdb.com/images/media/meals/pie.jpg"),
           filled, style.blank, style.meas) :
      filled \in SlotSets(MaxIngredients), style \in SlotStyles }

MealsWithoutThumb(id) ==
  { MealOf(id, Str("Apple  Pie!"), Null, {2, 5}, Null, Str(" 2 tsp ")),
    MealOf(id, Null, Str(" "), {2, 5}, Null, Str(" 2 tsp ")) }

LookupBodies(id) ==
  {Null, Obj([meals |-> Null]), Obj([meals |-> Arr(<<>>)])}
    \cup {Obj([meals |-> Arr(<<m>>)]) :
            m \in MealsWithThumb(id) \cup MealsWithoutThumb(id)}

LookupResponses(id) == Failures \cup {Json(b) : b \in LookupBodies(id)}

SearchResults ==
  { [title |-> Str("File:Apple pie.jpg")],
    [title |-> Str("File:Pie chart.SVG")],
    [title |-> Str("File:Pie recipe.pdf")],
    [title |-> Null] }

SearchBodies ==
  {Null, Obj([query |-> Null]), Obj([query |-> Obj([search |-> Null])])}
    \cup {Obj([query |-> Obj([search |-> Arr(l)])]) :
            l \in SeqsUpTo(SearchResults, MaxResults)}

SearchResponses == {Rejected, Unparsable} \cup {Json(b) : b \in SearchBodies}

ImageInfos ==
  [ thumburl : {Null, Str(""),
                Str("https://upload.wikimedia.org/thumb/Apple_pie.jpg/800px-Apple_pie.jpg"),
                Str("https://upload.wikimedia.org/thumb/Pie.svg/800px-Pie.svg.png")},
    url : {Null,
           Str("https://upload.wikimedia.org/Apple_pie.jpg"),
           Str("https://upload.wikimedia.org/Pie_recipe.pdf")} ]

\* pages is an object keyed by page id: here the array of its values in key
\* order
InfoBodies ==
  {Null, Obj([query |-> Null]), Obj([query |-> Obj([pages |-> Null])]),
   Obj([query |-> Obj([pages |-> Arr(<<>>)])]),
   Obj([query |-> Obj([pages |-> Arr(<<[imageinfo |-> Null]>>)])]),
   Obj([query |-> Obj([pages |-> Arr(<<[imageinfo |-> Arr(<<>>)]>>)])])}
    \cup {Obj([query |-> Obj([pages |-> Arr(<<[imageinfo |-> Arr(<<info>>)]>>)])]) :
            info \in ImageInfos}

InfoResponses == {Rejected, Unparsable} \cup {Json(b) : b \in InfoBodies}

---------------------------------------------------------------------------
(* The recipe service as a state machine                                   *)

ServiceIdle ==
  /\ pc = "idle"
  /\ op = "none"
  /\ mealId = ""
  /\ desserts = NoValue
  /\ data = NoValue
  /\ meal = NoValue
  /\ ingredients = <<>>
  /\ recipe = NoValue
  /\ error = NoValue
  /\ recipeReqs = <<>>
  /\ searchTerm = ""
  /\ variant = 0
  /\ results = <<>>
  /\ cand = 0
  /\ searches = <<>>
  /\ nMeta = 0
  /\ accepted = NoValue
  /\ image = NoValue

TextIdle ==
  /\ measure = ""
  /\ expanded = NoValue
  /\ instructions = ""
  /\ steps = NoValue

\* App before its mount effect: the initial values of the three states
AppIdle ==
  /\ mounted = FALSE
  /\ location = Null
  /\ loading = TRUE
  /\ appRecipe = Null
  /\ appError = Null
  /\ pending = <<>>
  /\ events = <<>>
  /\ clicks = 0

Init == ServiceIdle /\ TextIdle /\ AppIdle

\* a request to the recipe API ("list" or "lookup") and how it was answered
Request(req, id, resp) == [req |-> req, id |-> id, answer |-> resp.kind]

\* the call rejects with e
Throw(e) == pc' = "failed" /\ error' = e

\* getRandomDessertRecipe is called: fetchDessertRecipes
FetchDessertRecipes ==
  /\ pc = "idle"
  /\ op' = "random"
  /\ \E resp \in ListingResponses :
       /\ recipeReqs' = Append(recipeReqs, Request("list", "", resp))
       /\ CASE resp.kind = "rejected" ->
                Throw(Error("TypeError", "Failed to fetch"))
                /\ desserts' = desserts
           [] resp.kind = "status" ->
                /\ Throw(Error("Error", "Failed to fetch dessert recipes"))
                /\ desserts' = desserts
           [] resp.kind = "unparsable" ->
                Throw(Error("SyntaxError", "Unexpected token"))
                /\ desserts' = desserts
           [] resp.kind = "json" ->
                pc' = "listed" /\ desserts' = resp.body /\ error' = error
  /\ UNCHANGED <<mealId, data, meal, ingredients, recipe>>
  /\ UNCHANGED <<imageVars, unitVars, stepVars, appVars>>

\* getRandomDessertRecipe after the listing arrived: the empty check and the
\* random pick, then the call of fetchRecipeDetails, which ends the scope of
\* desserts
PickRandomMeal ==
  /\ pc = "listed"
  /\ LET n == IF desserts = Null \/ desserts.v.meals = Null
                THEN 0 ELSE Len(desserts.v.meals.v)
     IN \E randomIndex \in RandomIndexes(n) :
          IF desserts = Null
            THEN Throw(Error("TypeError", "Cannot read properties of null"))
                 /\ UNCHANGED <<mealId, desserts>>
          ELSE IF NoMeals(desserts.v)
            THEN Throw(Error("Error", "No dessert recipes found"))
                 /\ UNCHANGED <<mealId, desserts>>
          ELSE IF randomIndex + 1 > n
            THEN Throw(Error("TypeError", "Cannot read properties of undefined"))
                 /\ UNCHANGED <<mealId, desserts>>
          ELSE /\ mealId' = desserts.v.meals.v[randomIndex + 1].idMeal
               /\ desserts' = NoValue
               /\ pc' = "lookup"
               /\ error' = error
  /\ UNCHANGED <<op, data, meal, ingredients, recipe, recipeReqs>>
  /\ UNCHANGED <<imageVars, unitVars, stepVars, appVars>>

\* fetchRecipeDetails is called by the application
CallFetchRecipeDetails ==
  /\ pc = "idle"
  /\ op' = "details"
  /\ pc' = "lookup"
  /\ \E id \in MealIds : mealId' = id
  /\ UNCHANGED <<desserts, data, meal, ingredients, recipe, error, recipeReqs>>
  /\ UNCHANGED <<imageVars, unitVars, stepVars, appVars>>

\* fetchRecipeDetails up to the choice of the image
LookupMeal ==
  /\ pc = "lookup"
  /\ \E resp \in LookupResponses(mealId) :
     /\ recipeReqs' = Append(recipeReqs, Request("lookup", mealId, resp))
     /\ CASE resp.kind = "rejected" ->
              /\ Throw(Error("TypeError", "Failed to fetch"))
              /\ UNCHANGED <<data, meal, ingredients, recipe>>
         [] resp.kind = "status" ->
              /\ Throw(Error("Error", "Failed to fetch recipe details"))
              /\ UNCHANGED <<data, meal, ingredients, recipe>>
         [] resp.kind = "unparsable" ->
              /\ Throw(Error("SyntaxError", "Unexpected token"))
              /\ UNCHANGED <<data, meal, ingredients, recipe>>
         [] resp.kind = "json" ->
              /\ data' = resp.body
              /\ IF resp.body = Null \/ resp.body.v.meals = Null
                   THEN /\ Throw(Error("TypeError", "Cannot read properties of null"))
                        /\ UNCHANGED <<meal, ingredients, recipe>>
                 ELSE IF Len(resp.body.v.meals.v) = 0
                   THEN /\ Throw(Error("Error", "Recipe not found"))
                        /\ UNCHANGED <<meal, ingredients, recipe>>
                 ELSE LET m == resp.body.v.meals.v[1]
                          ingr == IngredientsFrom(m, 1)
                      IN /\ meal' = m
                         /\ ingredients' = ingr
                         /\ error' = error
                         /\ IF HasThumb(m)
                              THEN /\ recipe' = MakeRecipe(m, ingr, m.strMealThumb)
                                   /\ pc' = "done"
                              ELSE /\ recipe' = recipe
                                   /\ pc' = "image"
  /\ UNCHANGED <<op, mealId, desserts>>
  /\ UNCHANGED <<imageVars, unitVars, stepVars, appVars>>

\* getWikimediaImage is entered: the search term
GetWikimediaImage ==
  /\ pc = "image"
  /\ IF meal.strMeal = Null
       THEN pc' = OnImageError /\ UNCHANGED <<searchTerm, variant>>
       ELSE /\ searchTerm' = CleanName(meal.strMeal.v)
            /\ variant' = 1
            /\ pc' = "search"
  /\ UNCHANGED <<op, mealId, desserts, data, meal, ingredients, recipe, error,
                 recipeReqs>>
  /\ UNCHANGED <<results, cand, searches, nMeta, accepted, image>>
  /\ UNCHANGED <<unitVars, stepVars, appVars>>

\* the for loop over searchVariations moves on, or ends
NextVariation ==
  IF variant < Len(searchVariations(searchTerm))
    THEN variant' = variant + 1 /\ pc' = "search"
    ELSE variant' = variant /\ pc' = "fallback"

\* one search request and the test of its answer
SearchCommons ==
  /\ pc = "search"
  /\ searches' = Append(searches, searchVariations(searchTerm)[variant])
  /\ \E resp \in SearchResponses :
       IF resp.kind # "json" \/ resp.body = Null
         THEN pc' = OnImageError /\ UNCHANGED <<variant, results, cand>>
         ELSE LET search == IF resp.body.v.query = Null
                              THEN Null ELSE resp.body.v.query.v.search
              IN IF search # Null /\ Len(search.v) > 0
                   THEN /\ results' = search.v
                        /\ cand' = 1
                        /\ pc' = "candidate"
                        /\ variant' = variant
                   ELSE NextVariation /\ UNCHANGED <<results, cand>>
  /\ UNCHANGED <<op, mealId, desserts, data, meal, ingredients, recipe, error,
                 recipeReqs>>
  /\ UNCHANGED <<searchTerm, nMeta, accepted, image>>
  /\ UNCHANGED <<unitVars, stepVars, appVars>>

\* the candidate has no title: title.replace raises
CandidateWithoutTitle ==
  /\ pc = "candidate"
  /\ cand <= Len(results)
  /\ results[cand].title = Null
  /\ pc' = OnImageError
  /\ UNCHANGED <<op, mealId, desserts, data, meal, ingredients, recipe, error,
                 recipeReqs>>
  /\ UNCHANGED <<searchTerm, variant, results, cand, searches, nMeta, accepted,
                 image>>
  /\ UNCHANGED <<unitVars, stepVars, appVars>>

\* the candidate is an svg, pdf or txt file: continue
SkipCandidate ==
  /\ pc = "candidate"
  /\ cand <= Len(results)
  /\ results[cand].title # Null
  /\ IsNonImageFile(StripFilePrefix(results[cand].title.v, 1))
  /\ cand' = cand + 1
  /\ UNCHANGED <<pc, op, mealId, desserts, data, meal, ingredients, recipe,
                 error, recipeReqs>>
  /\ UNCHANGED <<searchTerm, variant, results, searches, nMeta, accepted, image>>
  /\ UNCHANGED <<unitVars, stepVars, appVars>>

\* data.query?.pages, pages[Object.keys(pages)[0]]?.imageinfo?.[0], and the
\* URL taken from it (Null when any of them is missing)
ImageUrlIn(body) ==
  LET pages == IF body.v.query = Null THEN Null ELSE body.v.query.v.pages
  IN IF pages = Null THEN Null
     ELSE IF Len(pages.v) = 0 THEN Null
     ELSE IF pages.v[1].imageinfo = Null THEN Null
     ELSE IF Len(pages.v[1].imageinfo.v) = 0 THEN Null
     ELSE ImageUrlOf(pages.v[1].imageinfo.v[1])

\* one metadata request for the candidate and the test of its answer
FetchImageInfo ==
  /\ pc = "candidate"
  /\ cand <= Len(results)
  /\ results[cand].title # Null
  /\ ~IsNonImageFile(StripFilePrefix(results[cand].title.v, 1))
  /\ nMeta' = nMeta + 1
  /\ \E resp \in InfoResponses :
       IF resp.kind # "json" \/ resp.body = Null
         THEN pc' = OnImageError /\ UNCHANGED <<cand, accepted, image>>
       ELSE IF AcceptableUrl(ImageUrlIn(resp.body))
         THEN /\ accepted' = ImageUrlIn(resp.body)
              /\ image' = ImageUrlIn(resp.body)
              /\ pc' = "imageDone"
              /\ cand' = cand
         ELSE cand' = cand + 1 /\ UNCHANGED <<pc, accepted, image>>
  /\ UNCHANGED <<op, mealId, desserts, data, meal, ingredients, recipe, error,
                 recipeReqs>>
  /\ UNCHANGED <<searchTerm, variant, results, searches>>
  /\ UNCHANGED <<unitVars, stepVars, appVars>>

\* every candidate of the variation was examined
EndOfResults ==
  /\ pc = "candidate"
  /\ cand > Len(results)
  /\ NextVariation
  /\ UNCHANGED <<op, mealId, desserts, data, meal, ingredients, recipe, error,
                 recipeReqs>>
  /\ UNCHANGED <<searchTerm, results, cand, searches, nMeta, accepted, image>>
  /\ UNCHANGED <<unitVars, stepVars, appVars>>

\* after the try statement: a random fallback image is returned
PickFallback ==
  /\ pc = "fallback"
  /\ \E k \in RandomIndexes(Len(fallbackImages)) :
       image' = Str(fallbackImages[k + 1])
  /\ pc' = "imageDone"
  /\ UNCHANGED <<op, mealId, desserts, data, meal, ingredients, recipe, error,
                 recipeReqs>>
  /\ UNCHANGED <<searchTerm, variant, results, cand, searches, nMeta, accepted>>
  /\ UNCHANGED <<unitVars, stepVars, appVars>>

\* fetchRecipeDetails resumes with the image and returns the Recipe
ReturnRecipe ==
  /\ pc = "imageDone"
  /\ recipe' = MakeRecipe(meal, ingredients, image)
  /\ pc' = "done"
  /\ UNCHANGED <<op, mealId, desserts, data, meal, ingredients, error,
                 recipeReqs>>
  /\ UNCHANGED <<imageVars, unitVars, stepVars, appVars>>

ImageStep ==
  \/ GetWikimediaImage
  \/ SearchCommons
  \/ CandidateWithoutTitle
  \/ SkipCandidate
  \/ FetchImageInfo
  \/ EndOfResults
  \/ PickFallback

Next ==
  \/ FetchDessertRecipes
  \/ PickRandomMeal
  \/ CallFetchRecipeDetails
  \/ LookupMeal
  \/ ImageStep
  \/ ReturnRecipe

Spec == Init /\ [][Next]_vars

---------------------------------------------------------------------------
(* expandUnits and getInstructionSteps applied to the inputs above         *)

InitUnits ==
  /\ ServiceIdle
  /\ AppIdle
  /\ measure \in Measures
  /\ expanded = NoValue
  /\ instructions = ""
  /\ steps = NoValue

CallExpandUnits ==
  /\ expanded = NoValue
  /\ expanded' = Str(expandUnits(measure))
  /\ UNCHANGED <<measure, stepVars, fetchVars, imageVars, appVars>>

NextUnits == CallExpandUnits

SpecUnits == InitUnits /\ [][NextUnits]_vars

InitSteps ==
  /\ ServiceIdle
  /\ AppIdle
  /\ measure = ""
  /\ expanded = NoValue
  /\ instructions \in InstructionTexts
  /\ steps = NoValue

CallGetInstructionSteps ==
  /\ steps = NoValue
  /\ steps' = Arr(getInstructionSteps(instructions))
  /\ UNCHANGED <<instructions, unitVars, fetchVars, imageVars, appVars>>

NextSteps == CallGetInstructionSteps

SpecSteps == InitSteps /\ [][NextSteps]_vars

---------------------------------------------------------------------------
(* The App component: the fetches it starts and the view it renders        *)

MaxClicks == 3

\* the 'recipe' query parameter when the page is opened: absent, empty, the
\* id of a meal, or an id the recipe API does not know
Locations == {Null, Str(""), Str("0")} \cup {Str(id) : id \in MealIds}

\* what getRandomDessertRecipe and fetchRecipeDetails may throw
RandomFailures ==
  {Error("TypeError", "Failed to fetch"),
   Error("Error", "No dessert recipes found")}

DetailFailures ==
  {Error("Error", "Failed to fetch recipe details"),
   Error("Error", "Recipe not found")}

\* the Recipe of meal id, as far as App reads it
RecipeOf(id) == Obj([id |-> id])

\* err instanceof Error ? err.message : 'Failed to fetch recipe'
MessageOf(err) ==
  IF err.t = "error" THEN err.message ELSE "Failed to fetch recipe"

\* the states of App and the calls it awaits, as one value
AppState ==
  [loading |-> loading, error |-> appError, recipe |-> appRecipe,
   location |-> location, pending |-> pending, events |-> events]

Commit(s) ==
  /\ loading' = s.loading
  /\ appError' = s.error
  /\ appRecipe' = s.recipe
  /\ location' = s.location
  /\ pending' = s.pending
  /\ events' = s.events

setLoading(s, b) == [s EXCEPT !.loading = b]

setError(s, e) == [s EXCEPT !.error = e]

setRecipe(s, r) == [s EXCEPT !.recipe = r]

\* window.history.pushState with the recipe parameter set to id
pushState(s, id) == [s EXCEPT !.location = Str(id)]

Event(e, fn, by) == [e |-> e, fn |-> fn, by |-> by]

\* the call fn(id) is made and awaited; by tells who started the fetch
Await(s, fn, id, by) ==
  [s EXCEPT !.pending = Append(@, [fn |-> fn, id |-> id]),
            !.events = Append(@, Event("start", fn, by))]

\* the awaited call at position k settles
Settle(s, k, e) ==
  [s EXCEPT !.pending = SubSeq(@, 1, k - 1) \o SubSeq(@, k + 1, Len(@)),
            !.events = Append(@, Event(e, s.pending[k].fn, ""))]

\* fetchRandomRecipe up to its await
fetchRandomRecipe(s, by) ==
  Await(setError(setLoading(s, TRUE), Null), "fetchRandomRecipe", "", by)

\* fetchRandomRecipe after its await: the try, catch and finally blocks
RandomResolved(s, r) ==
  setLoading(pushState(setRecipe(s, r), r.v.id), FALSE)

RandomRejected(s, err) ==
  setLoading(setError(s, Str(MessageOf(err))), FALSE)

\* fetchSpecificRecipe up to its await
fetchSpecificRecipe(s, recipeId, by) ==
  Await(setError(setLoading(s, TRUE), Null), "fetchSpecificRecipe", recipeId, by)

SpecificResolved(s, r) == setLoading(setRecipe(s, r), FALSE)

\* the catch block without its call of fetchRandomRecipe
CatchOfSpecificNoRetry(s, err) == setError(s, Str(MessageOf(err)))

\* the catch block of fetchSpecificRecipe
CatchOfSpecific(s, err) ==
  fetchRandomRecipe(setError(s, Str(MessageOf(err))), "catch")

\* fetchSpecificRecipe after its await rejected: catch, then finally
SpecificRejected(s, err) == setLoading(CatchOfSpecific(s, err), FALSE)

\* what App renders
View ==
  IF loading THEN "loading"
  ELSE IF Truthy(appError) THEN "error"
  ELSE IF ~Truthy(appRecipe) THEN "noRecipe"
  ELSE "recipe"

InitApp ==
  /\ ServiceIdle
  /\ TextIdle
  /\ mounted = FALSE
  /\ location \in Locations
  /\ loading = TRUE
  /\ appRecipe = Null
  /\ appError = Null
  /\ pending = <<>>
  /\ events = <<>>
  /\ clicks = 0

\* the mount effect
Mount ==
  /\ ~mounted
  /\ mounted' = TRUE
  /\ IF Truthy(location)
       THEN Commit(fetchSpecificRecipe(AppState, location.v, "mount"))
       ELSE Commit(fetchRandomRecipe(AppState, "mount"))
  /\ UNCHANGED <<clicks, unitVars, stepVars, fetchVars, imageVars>>

\* a click on Try Again (error and no-recipe views) or on the new-recipe
\* button of RecipeDisplay; the loading view has no button
Click ==
  /\ mounted
  /\ View # "loading"
  /\ clicks < MaxClicks
  /\ clicks' = clicks + 1
  /\ Commit(fetchRandomRecipe(AppState, "click"))
  /\ UNCHANGED <<mounted, unitVars, stepVars, fetchVars, imageVars>>

\* an awaited getRandomDessertRecipe settles
RandomSettles ==
  \E k \in 1..Len(pending) :
    /\ pending[k].fn = "fetchRandomRecipe"
    /\ \/ \E id \in MealIds :
            Commit(RandomResolved(Settle(AppState, k, "ok"), RecipeOf(id)))
       \/ \E err \in RandomFailures :
            Commit(RandomRejected(Settle(AppState, k, "fail"), err))
    /\ UNCHANGED <<mounted, clicks, unitVars, stepVars, fetchVars, imageVars>>

\* an awaited fetchRecipeDetails settles
SpecificSettles ==
  \E k \in 1..Len(pending) :
    /\ pending[k].fn = "fetchSpecificRecipe"
    /\ \/ /\ pending[k].id \in MealIds
          /\ Commit(SpecificResolved(Settle(AppState, k, "ok"),
                                     RecipeOf(pending[k].id)))
       \/ \E err \in DetailFailures :
            Commit(SpecificRejected(Settle(AppState, k, "fail"), err))
    /\ UNCHANGED <<mounted, clicks, unitVars, stepVars, fetchVars, imageVars>>

NextApp ==
  \/ Mount
  \/ Click
  \/ RandomSettles
  \/ SpecificSettles

SpecApp == InitApp /\ [][NextApp]_vars

---------------------------------------------------------------------------
(* Properties                                                              *)

FallbackPool == {fallbackImages[k] : k \in 1..Len(fallbackImages)}

\* C1: getWikimediaImage never raises: whatever the image service answers,
\* no error leaves the call, what it returns is a URL, and when no URL was
\* accepted from the search the URL returned is one of the four fallback
\* images.
C1_NeverRaises ==
  /\ pc # "imageRaised"
  /\ Cardinality(FallbackPool) = 4
  /\ pc = "imageDone" =>
       /\ image # NoValue
       /\ image.t = "str"
       /\ accepted = NoValue => image.v \in FallbackPool

\* a request failed in the second variation, after one metadata request, and
\* a fallback image was returned
C1_Witness ==
  /\ pc = "imageDone"
  /\ accepted = NoValue
  /\ variant = 2
  /\ Len(searches) = 2
  /\ nMeta = 1
  /\ image.v \in FallbackPool

EmptyListing(d) ==
  d # NoValue /\ d # Null /\ (d.v.meals = Null \/ Len(d.v.meals.v) = 0)

NoLookupIssued == \A k \in 1..Len(recipeReqs) : recipeReqs[k].req # "lookup"

\* C2: when the listing arrived without meals (an empty or absent list),
\* getRandomDessertRecipe raises 'No dessert recipes found' as its next step
\* and no lookup request is issued in that call.
C2_EmptyCatalog ==
  /\ [](pc = "failed" /\ op = "random" /\ EmptyListing(desserts)
          => /\ error = Error("Error", "No dessert recipes found")
             /\ NoLookupIssued)
  /\ [][pc = "listed" /\ EmptyListing(desserts)
          => pc' = "failed" /\ recipeReqs' = recipeReqs]_vars

C2_Witness ==
  /\ pc = "failed"
  /\ op = "random"
  /\ desserts = Obj([meals |-> Arr(<<>>)])
  /\ error = Error("Error", "No dessert recipes found")
  /\ recipeReqs = <<[req |-> "list", id |-> "", answer |-> "json"]>>

\* C3: a lookup answered with a success status and no record (an empty list,
\* or an absent / null list) makes fetchRecipeDetails raise 'Recipe not
\* found' and return no Recipe; a non-success status makes it raise the
\* network error.
C3_NotFound ==
  (pc = "failed" /\ Len(recipeReqs) > 0
     /\ recipeReqs[Len(recipeReqs)].req = "lookup")
  => LET answer == recipeReqs[Len(recipeReqs)].answer
     IN /\ recipe = NoValue
        /\ answer = "status"
             => error = Error("Error", "Failed to fetch recipe details")
        /\ (answer = "json" /\ data # Null
              /\ (data.v.meals = Null \/ Len(data.v.meals.v) = 0))
             => error = Error("Error", "Recipe not found")

FilledSlots(m) ==
  {i \in 1..NumSlots :
     m.strIngredient[i] # Null /\ trim(m.strIngredient[i].v) # ""}

\* the k-th smallest member of the set S of numbers
Nth(S, k) == CHOOSE i \in S : Cardinality({j \in S : j < i}) = k - 1

\* C4: the ingredient list has one entry per slot of 1..20 whose ingredient
\* is non-blank after trimming, in increasing slot order, blank slots in
\* between being skipped, and the entry of a slot without a measure has the
\* empty measure.
C4_Ingredients ==
  meal # NoValue =>
    /\ Len(ingredients) = Cardinality(FilledSlots(meal))
    /\ \A k \in 1..Len(ingredients) :
         LET i == Nth(FilledSlots(meal), k)
         IN /\ ingredients[k].name = trim(meal.strIngredient[i].v)
            /\ meal.strMeasure[i] = Null => ingredients[k].measure = ""

\* slots 2 and 5 are filled, the slots around and between them are blank
C4_Witness ==
  /\ pc = "done"
  /\ FilledSlots(meal) = {2, 5}
  /\ meal.strMeasure[2] = Null
  /\ Len(ingredients) = 2
  /\ ingredients[1] = [name |-> "item2", measure |-> ""]
  /\ ingredients[2] = [name |-> "item5", measure |-> ""]

VariationSuffixes == <<" dessert", " cake", " food", "">>

\* C5: the search queries are issued in the order '<name> dessert',
\* '<name> cake', '<name> food', '<name>'; the candidates of a variation are
\* examined in result order; a variation is queried only when every
\* candidate before it was examined and none accepted; and an accepted URL
\* is returned with no search or metadata request after it.
C5_SearchOrder ==
  /\ [](/\ Len(searches) <= Len(VariationSuffixes)
        /\ \A k \in 1..Len(searches) :
             searches[k] = searchTerm \o VariationSuffixes[k]
        /\ pc = "search" =>
             /\ accepted = NoValue
             /\ Len(searches) = variant - 1
             /\ results = <<>> \/ cand = Len(results) + 1
        /\ pc = "imageDone" /\ accepted # NoValue => image = accepted)
  /\ [][/\ (accepted # NoValue \/ pc \in {"imageDone", "done"})
             => searches' = searches /\ nMeta' = nMeta
        /\ cand' # cand => cand' = cand + 1 \/ cand' = 1
        /\ accepted' # accepted => pc' = "imageDone"]_vars

\* the second candidate of the second variation was accepted
C5_Witness ==
  /\ pc = "imageDone"
  /\ accepted # NoValue
  /\ image = accepted
  /\ variant = 2
  /\ cand = 2
  /\ searches = <<"apple pie dessert", "apple pie cake">>

\* C6: the URL getWikimediaImage returns is a non-empty string that does not
\* end in svg, pdf or txt, whether it comes from a candidate or from the
\* fallback pool.
C6_ImageUrl ==
  pc = "imageDone" =>
    /\ image # NoValue
    /\ image.t = "str"
    /\ image.v # ""
    /\ \A ext \in {".svg", ".pdf", ".txt"} :
         ~endsWith(toLowerCase(image.v), ext)

\* C7: getInstructionSteps("1. Mix flour. 2. Bake at 350.") is
\* ["Mix flour.", "Bake at 350."]: one step per numbered step, with its full
\* text.
C7_Example ==
  (steps # NoValue /\ instructions = "1. Mix flour. 2. Bake at 350.")
    => steps = Arr(<<"Mix flour.", "Bake at 350.">>)

\* the sentence strategy is used: at most one numbered segment was found
SentenceStrategyUsed == Len(MatchNumbered(instructions, 1)) <= 1

\* out holds, in order, the candidates of cands with at least min characters,
\* each with a period appended unless it ends in one
KeptWithPeriod(out, cands, min) ==
  LET K == {k \in 1..Len(cands) : Len(cands[k]) >= min}
  IN /\ Len(out) = Cardinality(K)
     /\ \A j \in 1..Len(out) :
          LET c == cands[Nth(K, j)]
          IN out[j] = (IF Char(c, Len(c)) = "." THEN c ELSE c \o ".")

\* C8: under the sentence strategy the output is, in input order, the
\* trimmed split candidates of more than 20 characters (a candidate of
\* exactly 20 is discarded), each ending in a period, appended only when
\* the candidate did not end in one.
C8_SentenceSteps ==
  (steps # NoValue /\ SentenceStrategyUsed)
    => KeptWithPeriod(steps.v, MapSeq(SplitSentences(instructions), trim), 21)

\* a candidate of 20 characters is discarded, one of 21 is kept
C8_Witness ==
  /\ instructions = "Fold in the egg yolk\n\nfold in the egg white"
  /\ SentenceStrategyUsed
  /\ steps = Arr(<<"fold in the egg white.">>)

\* C8 with the threshold read inclusively: the candidates of at least 20
\* characters are kept.
C8_Original ==
  (steps # NoValue /\ SentenceStrategyUsed)
    => KeptWithPeriod(steps.v, MapSeq(SplitSentences(instructions), trim), 20)

NumericQuantities == {w \o f : w \in WholeNumbers, f \in Fractions}

\* C9: expandUnits("1 tsp") is "1 teaspoon", expandUnits("2 tsp") is
\* "2 teaspoons", and for a measure '<quantity> <unit>' with unit tsp, tbsp
\* or oz the result ends in 's' exactly when the quantity is not "1".
C9_Plural ==
  expanded # NoValue =>
    /\ measure = "1 tsp" => expanded.v = "1 teaspoon"
    /\ measure = "2 tsp" => expanded.v = "2 teaspoons"
    /\ \A q \in NumericQuantities, u \in {"tsp", "tbsp", "oz"} :
         measure = q \o " " \o u => (endsWith(expanded.v, "s") <=> q # "1")

UnitTable ==
  { <<"tsp", "teaspoon">>, <<"tbsp", "tablespoon">>, <<"tbl", "tablespoon">>,
    <<"T", "tablespoon">>, <<"t", "teaspoon">>, <<"oz", "ounce">>,
    <<"lb", "pound">>, <<"lbs", "pounds">>, <<"pt", "pint">>,
    <<"qt", "quart">>, <<"gal", "gallon">>, <<"fl oz", "fluid ounce">>,
    <<"g", "gram">>, <<"kg", "kilogram">>, <<"ml", "milliliter">>,
    <<"l", "liter">> }

\* C10: every abbreviation of the table that occurs as a whole word is
\* replaced by its full word; a measure with 'fl oz' yields 'fluid ounce'.
C10_Table ==
  expanded # NoValue =>
    \A p \in UnitTable, q \in Quantities :
      measure = (IF q = "" THEN p[1] ELSE q \o " " \o p[1])
        => includes(expanded.v, p[2])

\* positions of events where a fetch was started by one of the starters in B
StartsBy(B) ==
  {k \in 1..Len(events) : events[k].e = "start" /\ events[k].by \in B}

SpecificFailed(k) == events[k] = Event("fail", "fetchSpecificRecipe", "")

RandomFailed(k) == events[k] = Event("fail", "fetchRandomRecipe", "")

RetryStarted(k) == events[k] = Event("start", "fetchRandomRecipe", "catch")

\* C11: a failed fetchSpecificRecipe is followed at once by one random fetch
\* started from its catch block, a failed fetchRandomRecipe starts no fetch,
\* and over a run at most one fetch is started without a click after the
\* one started by the mount effect.
C11_SingleRetry ==
  /\ \A k \in 1..Len(events) :
       /\ SpecificFailed(k) =>
            /\ k < Len(events)
            /\ RetryStarted(k + 1)
            /\ k + 1 < Len(events) => events[k + 2].by # "catch"
       /\ RetryStarted(k) => k > 1 /\ SpecificFailed(k - 1)
       /\ RandomFailed(k) /\ k < Len(events) =>
            ~(events[k + 1].e = "start" /\ events[k + 1].by # "click")
  /\ Cardinality(StartsBy({"mount"})) <= 1
  /\ Cardinality(StartsBy({"catch"})) <= 1
  /\ Cardinality(StartsBy({"click"})) = clicks
  /\ Len(pending) + Cardinality({k \in 1..Len(events) : events[k].e # "start"})
       = Cardinality(StartsBy({"mount", "catch", "click"}))

\* the load by id failed, the random fetch started from the catch block
\* failed too, and nothing is awaited after it
C11_Witness ==
  /\ events = << Event("start", "fetchSpecificRecipe", "mount"),
                 Event("fail", "fetchSpecificRecipe", ""),
                 Event("start", "fetchRandomRecipe", "catch"),
                 Event("fail", "fetchRandomRecipe", "") >>
  /\ pending = <<>>
  /\ clicks = 0
  /\ View = "error"

\* C12: while a recipe fetch is awaited the loading state is true, so the
\* loading view is rendered and not the no-recipe, error or recipe view.
C12_LoadingWhileInFlight ==
  pending # <<>> => loading /\ View = "loading"

===========================================================================
